---------------------------- MODULE Spec2Model ----------------------------
(***************************************************************************)
(* A model of typer-fixtures: the Generator (registry, file export/import, *)
(* remote create/list/clear/reset orchestration), the DatabaseConnector's  *)
(* health check, and the `database` command.                               *)
(*                                                                         *)
(* Python values are modelled as records of one shape,                     *)
(*   [kind, atom, fields, elems],                                          *)
(* so that any two values can be compared: `kind` says which Python type   *)
(* the value has, `atom` is the text of a scalar, `fields` the items of a  *)
(* dict (a set of <<key, value>> pairs with distinct keys: dict equality   *)
(* in Python ignores the order of insertion) and `elems` the elements of a *)
(* list or tuple.  The registry `fixture_configs` is the one dict whose    *)
(* iteration order the code depends on; it is a sequence of                *)
(* <<name, descriptor>> pairs in insertion order.                          *)
(***************************************************************************)
EXTENDS Naturals, Sequences, FiniteSets, TLC

VARIABLES
    fixture_configs,  \* Generator.fixture_configs: the registry
    file,             \* the JSON document written by save_to_files, or NoFile
    op,               \* the last call: its name, argument, result, exception, requests
    hist,             \* what earlier calls were given and returned (for the round trips)
    hc,               \* DatabaseConnector.health_check: the loop's position and counters
    cmd               \* the `database` command: its options, position and exit status

vars == <<fixture_configs, file, op, hist, hc, cmd>>

---------------------------------------------------------------------------
(* Bounds                                                                  *)

MaxFixtures == 2     \* entries of a registry, and names a registry may use
MaxListed == 2       \* elements of the list a GET of the list endpoint answers
MaxRetries == 3      \* max_retries given to health_check
MaxGenerators == 2   \* generators the command has discovered
MaxUpdates == 3      \* add_fixture, save_to_files and load_from_file calls in a run
MaxFiles == 2        \* files in the generators directory

---------------------------------------------------------------------------
(* Python values                                                           *)

Str(s) == [kind |-> "str", atom |-> s, fields |-> {}, elems |-> <<>>]
Int(s) == [kind |-> "int", atom |-> s, fields |-> {}, elems |-> <<>>]
Dict(f) == [kind |-> "dict", atom |-> "", fields |-> f, elems |-> <<>>]
List(e) == [kind |-> "list", atom |-> "", fields |-> {}, elems |-> e]
Tuple(e) == [kind |-> "tuple", atom |-> "", fields |-> {}, elems |-> e]
None == [kind |-> "none", atom |-> "", fields |-> {}, elems |-> <<>>]

\* `k in d`, `d[k]`, `d[k] = v` and `d.pop(k)` on the items of a dict.
HasKey(d, k) == \E p \in d : p[1] = k
Get(d, k) == (CHOOSE p \in d : p[1] = k)[2]
SetKey(d, k, v) == {p \in d : p[1] # k} \cup {<<k, v>>}
Pop(d, k) == {p \in d : p[1] # k}
KeysOf(d) == {p[1] : p \in d}

\* The registry: an insertion-ordered dict.
RegKeys(reg) == [i \in 1..Len(reg) |-> reg[i][1]]
RegHas(reg, n) == \E i \in 1..Len(reg) : reg[i][1] = n
RegGet(reg, n) == reg[CHOOSE i \in 1..Len(reg) : reg[i][1] = n][2]
RegSet(reg, n, d) ==
    IF RegHas(reg, n)
    THEN [i \in 1..Len(reg) |-> IF reg[i][1] = n THEN <<n, d>> ELSE reg[i]]
    ELSE Append(reg, <<n, d>>)

RangeOf(s) == {s[i] : i \in 1..Len(s)}

---------------------------------------------------------------------------
(* Fixture names and the descriptors a registry is built from              *)

NameTable == <<"x", "y", "z", "w", "u">>
Names == {NameTable[i] : i \in 1..MaxFixtures}
MissingName == "nope"

\* {"data": {n: {"v": 1}}}: the wrapper structure of example_fixtures.py.
DescWrapped(n) ==
    {<<"data", Dict({<<n, Dict({<<"v", Int("1")>>})>>})>>}
\* {"description": .., "data": {"v": 1, "fixture_id": "stale"}}: a wrapped
\* payload with a fixture_id of its own.
DescWrappedWithId(n) ==
    {<<"description", Str("wrapped")>>,
     <<"data", Dict({<<"v", Int("1")>>, <<"fixture_id", Str("stale")>>})>>}
\* {"description": .., "tags": (..), "v": 2, "fixture_id": "stale"}: a simple
\* fixture, no wrapper, with a fixture_id of its own.
DescSimple(n) ==
    {<<"description", Str("simple")>>, <<"tags", Tuple(<<Str("t")>>)>>,
     <<"v", Int("2")>>, <<"fixture_id", Str("stale")>>}

DescChoices(n) == {DescWrapped(n), DescWrappedWithId(n), DescSimple(n)}

Entries == {<<n, d>> : n \in Names, d \in UNION {DescChoices(m) : m \in Names}}

\* Every registry of at most MaxFixtures entries with distinct names, each
\* descriptor one of the choices for its name (Generator.__init__ takes the
\* registry as given: `self.fixture_configs = fixture_data or {}`).
InitialRegistries ==
    UNION {{r \in [1..k -> Entries] :
              /\ \A i, j \in 1..k : r[i][1] = r[j][1] => i = j
              /\ \A i \in 1..k : r[i][2] \in DescChoices(r[i][1])}
           : k \in 0..MaxFixtures}

---------------------------------------------------------------------------
(* Generator: registry operations (generators/base.py)                     *)

metadata_keys == {"description", "tags"}

\* The body of the loop of get_fixtures, and of get_fixture_by_name after its
\* membership test: unwrap `data` (a shallow copy) or drop the metadata keys,
\* then set fixture_id.
ResolveWithoutOverwrite(name, fixture_data) ==
    LET data == IF HasKey(fixture_data, "data")
                THEN Get(fixture_data, "data").fields
                ELSE {p \in fixture_data : p[1] \notin metadata_keys}
    IN  IF HasKey(data, "fixture_id") THEN data
        ELSE SetKey(data, "fixture_id", Str(name))

ResolveFlattened(name, fixture_data) ==
    LET data == IF HasKey(fixture_data, "data")
                THEN LET d == Get(fixture_data, "data").fields
                     IN  IF HasKey(d, name) /\ Get(d, name).kind = "dict"
                         THEN Get(d, name).fields ELSE d
                ELSE {p \in fixture_data : p[1] \notin metadata_keys}
    IN  SetKey(data, "fixture_id", Str(name))

Resolve(name, fixture_data) ==
    LET data == IF HasKey(fixture_data, "data")
                THEN Get(fixture_data, "data").fields
                ELSE {p \in fixture_data : p[1] \notin metadata_keys}
    IN  SetKey(data, "fixture_id", Str(name))

get_fixtures(reg) == [i \in 1..Len(reg) |-> Resolve(reg[i][1], reg[i][2])]

\* list_available: each name with its description, or "Fixture: {name}".
list_available(reg) ==
    {<<reg[i][1],
       IF HasKey(reg[i][2], "description")
       THEN Get(reg[i][2], "description")
       ELSE [kind |-> "str", atom |-> "Fixture: {name}", fields |-> {},
             elems |-> <<Str(reg[i][1])>>]>> : i \in 1..Len(reg)}

\* What the calls do to the registry.  A dict a local variable refers to is
\* [owner, fields]: owner is "registry" if it is the very dict held in
\* self.fixture_configs, "call" if the call made it; an assignment to a key
\* of a dict owned by the registry changes the registry.

\* `data = fixture_data["data"]`, with no copy taken.
DictShared(ref) == ref

\* dict.copy(): a new dict with the same items.
DictCopy(ref) == [ref EXCEPT !.owner = "call"]

\* `data` in get_fixtures and get_fixture_by_name, after
\* `data["fixture_id"] = fixture_name`.
ResolvedData(name, fixture_data) ==
    LET data == IF HasKey(fixture_data, "data")
                THEN DictCopy([owner |-> "registry",
                               fields |-> Get(fixture_data, "data").fields])
                ELSE [owner |-> "call",
                      fields |-> {p \in fixture_data : p[1] \notin metadata_keys}]
    IN  [data EXCEPT !.fields = SetKey(@, "fixture_id", Str(name))]

\* `fixture_config.pop("fixture_id")` of create_fixture_in_database, on the
\* dict it is given.
PoppedData(data) == [data EXCEPT !.fields = Pop(@, "fixture_id")]

\* The descriptor once the dict `data` refers to holds data.fields.
DescriptorAfter(fixture_data, data) ==
    IF data.owner = "registry"
    THEN SetKey(fixture_data, "data", Dict(data.fields))
    ELSE fixture_data

\* The registry after get_fixtures.
RegistryAfterGetFixtures(reg) ==
    [i \in 1..Len(reg) |->
        <<reg[i][1],
          DescriptorAfter(reg[i][2], ResolvedData(reg[i][1], reg[i][2]))>>]

\* The registry after get_fixtures and then create_fixture_in_database of
\* each resolved fixture whose index is in `created`.
RegistryAfterCreate(reg, created) ==
    [i \in 1..Len(reg) |->
        <<reg[i][1],
          DescriptorAfter(reg[i][2],
              IF i \in created
              THEN PoppedData(ResolvedData(reg[i][1], reg[i][2]))
              ELSE ResolvedData(reg[i][1], reg[i][2]))>>]

\* add_fixture: fixture_configs[name] = {"description": .., "config": ..}
AddedDescriptor(description, config) ==
    {<<"description", Str(description)>>, <<"config", config>>}

\* json.dump: a Python value as a JSON document (a tuple is written as an
\* array, like a list; every dict here has str keys).
RECURSIVE JsonDump(_)
JsonDump(v) ==
    CASE v.kind = "dict" ->
           [kind |-> "object", atom |-> "",
            fields |-> {<<p[1], JsonDump(p[2])>> : p \in v.fields}, elems |-> <<>>]
      [] v.kind \in {"list", "tuple"} ->
           [kind |-> "array", atom |-> "", fields |-> {},
            elems |-> [i \in 1..Len(v.elems) |-> JsonDump(v.elems[i])]]
      [] v.kind = "str" -> [v EXCEPT !.kind = "string"]
      [] v.kind = "int" -> [v EXCEPT !.kind = "number"]
      [] OTHER -> [v EXCEPT !.kind = "null"]

\* json.load: a JSON document as a Python value (an array is read as a list).
RECURSIVE JsonLoad(_)
JsonLoad(j) ==
    CASE j.kind = "object" ->
           [kind |-> "dict", atom |-> "",
            fields |-> {<<p[1], JsonLoad(p[2])>> : p \in j.fields}, elems |-> <<>>]
      [] j.kind = "array" ->
           [kind |-> "list", atom |-> "", fields |-> {},
            elems |-> [i \in 1..Len(j.elems) |-> JsonLoad(j.elems[i])]]
      [] j.kind = "string" -> [j EXCEPT !.kind = "str"]
      [] j.kind = "number" -> [j EXCEPT !.kind = "int"]
      [] OTHER -> [j EXCEPT !.kind = "none"]

\* The loop of load_from_file over the fixtures read: each is stored under
\* its fixture_id (popped from it) as {"config": fixture}; a later fixture
\* with the same id overwrites an earlier one.
RECURSIVE LoadedRegistry(_, _)
LoadedRegistry(reg, fixtures) ==
    IF fixtures = <<>> THEN reg
    ELSE LET fixture == Head(fixtures).fields
             fixture_id == Get(fixture, "fixture_id").atom
         IN  LoadedRegistry(
                 RegSet(reg, fixture_id,
                        {<<"config", Dict(Pop(fixture, "fixture_id"))>>}),
                 Tail(fixtures))

NoExc == [type |-> "none", msg |-> <<>>]
NoFile == None
NoHist == [exported |-> <<>>, added |-> {}, updates |-> 0]

Call(name, arg, ret, exc) ==
    [name |-> name, arg |-> arg, ret |-> ret, exc |-> exc, log |-> <<>>,
     calls |-> <<>>]

ConfigChoices ==
    {Dict({<<"v", Int("3")>>}), Dict({<<"w", Dict({<<"v", Int("1")>>})>>})}

NoCall == Call("init", None, <<>>, NoExc)

GetFixtures ==
    /\ op' = Call("get_fixtures", None, get_fixtures(fixture_configs), NoExc)
    /\ fixture_configs' = RegistryAfterGetFixtures(fixture_configs)
    /\ UNCHANGED <<file, hist, hc, cmd>>

GetFixtureByName ==
    \E name \in Names \cup {MissingName} :
        /\ op' = IF ~RegHas(fixture_configs, name)
                 THEN Call("get_fixture_by_name", Str(name), None,
                           [type |-> "ValueError",
                            msg |-> <<"Fixture '", name, "' not found. Available: ">>
                                    \o RegKeys(fixture_configs)])
                 ELSE Call("get_fixture_by_name", Str(name),
                           Resolve(name, RegGet(fixture_configs, name)), NoExc)
        /\ fixture_configs' =
               IF ~RegHas(fixture_configs, name) THEN fixture_configs
               ELSE RegSet(fixture_configs, name,
                        DescriptorAfter(RegGet(fixture_configs, name),
                            ResolvedData(name, RegGet(fixture_configs, name))))
        /\ UNCHANGED <<file, hist, hc, cmd>>

ListAvailable ==
    /\ op' = Call("list_available", None, list_available(fixture_configs), NoExc)
    /\ UNCHANGED <<fixture_configs, file, hist, hc, cmd>>

AddFixture ==
    \E name \in Names, config \in ConfigChoices :
        /\ hist.updates < MaxUpdates
        /\ fixture_configs' =
               RegSet(fixture_configs, name, AddedDescriptor("added", config))
        /\ op' = Call("add_fixture", Str(name), None, NoExc)
        /\ hist' = [hist EXCEPT
                      !.added = {p \in @ : p[1] # name} \cup {<<name, config>>},
                      !.updates = @ + 1]
        /\ UNCHANGED <<file, hc, cmd>>

SaveToFiles ==
    /\ hist.updates < MaxUpdates
    /\ file' = JsonDump(List([i \in 1..Len(fixture_configs) |->
                                Dict(get_fixtures(fixture_configs)[i])]))
    /\ op' = Call("save_to_files", None, Str("fixtures/fixtures.json"), NoExc)
    /\ hist' = [hist EXCEPT !.exported = get_fixtures(fixture_configs),
                         !.updates = @ + 1]
    /\ fixture_configs' = RegistryAfterGetFixtures(fixture_configs)
    /\ UNCHANGED <<hc, cmd>>

LoadFromFile ==
    /\ hist.updates < MaxUpdates
    /\ IF file = NoFile
       THEN /\ op' = Call("load_from_file", None, None,
                          [type |-> "FileNotFoundError", msg |-> <<>>])
            /\ hist' = [hist EXCEPT !.updates = @ + 1]
            /\ UNCHANGED fixture_configs
       ELSE /\ fixture_configs' = LoadedRegistry(<<>>, JsonLoad(file).elems)
            /\ op' = Call("load_from_file", None, None, NoExc)
            /\ hist' = [hist EXCEPT !.added = {}, !.updates = @ + 1]
    /\ UNCHANGED <<file, hc, cmd>>

\* No health_check call has been made: the loop's position, max_retries, the
\* value of `attempt`, the GETs and sleeps so far, and the value returned.
NoHc ==
    [pc |-> "idle", max_retries |-> 0, attempt |-> 0, trace |-> <<>>,
     result |-> FALSE]

\* The options of the `database` command with their defaults (main.py).
DefaultOptions ==
    [api_url |-> "http://localhost:8000", list_available |-> FALSE,
     setup |-> TRUE, reset |-> FALSE, reset_and_setup |-> FALSE,
     confirm |-> FALSE, list_existing |-> FALSE]

\* The `database` command has not been run.
NoCmd ==
    [pc |-> "idle", opts |-> DefaultOptions, generators |-> <<>>,
     health |-> "", branch |-> "", k |-> 1, answer |-> "", log |-> <<>>,
     calls |-> <<>>, exit_code |-> 0]

Init ==
    /\ fixture_configs \in InitialRegistries
    /\ file = NoFile
    /\ op = NoCall
    /\ hist = NoHist
    /\ hc = NoHc
    /\ cmd = NoCmd

Next ==
    \/ GetFixtures
    \/ GetFixtureByName
    \/ ListAvailable
    \/ AddFixture
    \/ SaveToFiles
    \/ LoadFromFile

Spec == Init /\ [][Next]_vars

---------------------------------------------------------------------------
(* DatabaseConnector: the verb methods (database.py)                       *)
(*                                                                         *)
(* The remote API is the environment: each request is answered by a        *)
(* response the action draws, [status, body, cause].  status "ok" is a 2xx *)
(* answer with JSON body `body`; "http_error" is a transport failure or a  *)
(* non-2xx status (an httpx.HTTPError whose text is `cause`); "bad_json"   *)
(* is a 2xx answer whose body is not JSON (response.json() raises a        *)
(* ValueError, which the verb methods do not catch).  An exception is      *)
(* [type, msg], msg the message as a sequence of the pieces the f-strings  *)
(* join.                                                                   *)

Exc(type, msg) == [type |-> type, msg |-> msg]

Ok(body) == [status |-> "ok", body |-> body, cause |-> ""]
HttpError(cause) == [status |-> "http_error", body |-> None, cause |-> cause]
BadJson == [status |-> "bad_json", body |-> None, cause |-> "Expecting value"]

Cause405 == "Client error '405 Method Not Allowed' for url"
Cause500 == "Server error '500 Internal Server Error' for url"
CauseTimeout == "timed out"

\* `"405" in text` for the pieces a message is made of.
Pieces405 == {Cause405}
Contains405(msg) == \E i \in 1..Len(msg) : msg[i] \in Pieces405

\* get / put / delete: one request, no retry; an httpx.HTTPError is raised
\* again as Exception("<VERB> request failed for <endpoint>: <e>").
db_request(verb, endpoint, body, resp) ==
    [ret |-> IF resp.status = "ok" THEN resp.body ELSE None,
     exc |-> CASE resp.status = "ok" -> NoExc
               [] resp.status = "http_error" ->
                    Exc("Exception",
                        <<verb, " request failed for ">> \o endpoint
                            \o <<": ", resp.cause>>)
               [] OTHER -> Exc("JSONDecodeError", <<resp.cause>>),
     log |-> <<[verb |-> verb, endpoint |-> endpoint, body |-> body,
                ok |-> resp.status = "ok"]>>]

---------------------------------------------------------------------------
(* Generator: database operations (generators/base.py)                     *)
(*                                                                         *)
(* These are the calls the `database` command makes after its health check *)
(* has passed, so the generator has a client (self.db is set).  Each       *)
(* operator returns [ret, exc, log, calls]: the value returned, the        *)
(* exception raised (NoExc if none), the requests issued in order, and the *)
(* calls it made to other operations with their outcomes.                  *)

default_create_endpoint(fixture_id) == <<"/", fixture_id, "/">>
default_list_endpoint == <<"/">>
default_clear_endpoint == <<"/">>

IntStr(n) == <<"0", "1", "2", "3", "4", "5", "6", "7", "8", "9">>[n + 1]

Outcome(ret, exc, log, calls) ==
    [ret |-> ret, exc |-> exc, log |-> log, calls |-> calls]

\* An operation's result is bound once and then used, as a local variable
\* is: `CHOOSE out \in {F(r) : r \in {G}} : TRUE` is F applied to the value
\* of G.

\* create_fixture_in_database returning the body it sent, fixture_id not set
\* again.
CreatedWithoutId(fixture_id, body, r) ==
    IF r.exc = NoExc
    THEN Outcome(body, NoExc, r.log, <<>>)
    ELSE Outcome(None,
                 Exc("Exception",
                     <<"Failed to create fixture ", fixture_id.atom, ": ">>
                         \o r.exc.msg),
                 r.log, <<>>)

\* create_fixture_in_database after the PUT has been answered: return the
\* payload with fixture_id set again, or raise
\* Exception("Failed to create fixture <id>: <e>").
Created(fixture_id, body, r) ==
    IF r.exc = NoExc
    THEN Outcome(SetKey(body, "fixture_id", fixture_id), NoExc, r.log, <<>>)
    ELSE Outcome(None,
                 Exc("Exception",
                     <<"Failed to create fixture ", fixture_id.atom, ": ">>
                         \o r.exc.msg),
                 r.log, <<>>)

\* create_fixture_in_database: pop fixture_id, PUT the rest to the formatted
\* endpoint.
create_fixture_in_database(fixture_config, resp) ==
    CHOOSE out \in
        {Created(Get(fixture_config, "fixture_id"),
                 Pop(fixture_config, "fixture_id"), r) :
            r \in {db_request("PUT",
                              default_create_endpoint(
                                  Get(fixture_config, "fixture_id").atom),
                              Dict(Pop(fixture_config, "fixture_id")),
                              resp)}} : TRUE

\* One turn of the loop of setup_fixtures: a created fixture is appended, one
\* that raised is skipped (`continue`).
Collected(acc, c) ==
    Outcome(IF c.exc = NoExc THEN Append(acc.ret, c.ret) ELSE acc.ret,
            NoExc, acc.log \o c.log,
            Append(acc.calls,
                   [fn |-> "create_fixture_in_database",
                    ret |-> c.ret, exc |-> c.exc]))

\* The loop giving up at the first fixture that raises.
RECURSIVE SetupLoopStopping(_, _, _, _)
SetupLoopStopping(configs, resps, i, acc) ==
    IF i > Len(configs) THEN acc
    ELSE CHOOSE out \in
             {IF c.exc = NoExc
              THEN SetupLoopStopping(configs, resps, i + 1, Collected(acc, c))
              ELSE Collected(acc, c) :
                 c \in {create_fixture_in_database(configs[i], resps[i])}}
             : TRUE

\* The loop of setup_fixtures over the resolved fixtures, from the i-th on.
RECURSIVE SetupLoop(_, _, _, _)
SetupLoop(configs, resps, i, acc) ==
    IF i > Len(configs) THEN acc
    ELSE CHOOSE out \in
             {SetupLoop(configs, resps, i + 1, next) :
                 next \in {Collected(acc, c) :
                     c \in {create_fixture_in_database(configs[i], resps[i])}}}
             : TRUE

\* setup_fixtures going into the loop without looking at the registry.
SetupWithoutEmptinessCheck(reg, resps) ==
    SetupLoop(get_fixtures(reg), resps, 1, Outcome(<<>>, NoExc, <<>>, <<>>))

\* setup_fixtures: ValueError on an empty registry, else the loop.
setup_fixtures(reg, resps) ==
    IF Len(reg) = 0
    THEN Outcome(None, Exc("ValueError", <<"No fixture data configured.">>),
                 <<>>, <<>>)
    ELSE SetupLoop(get_fixtures(reg), resps, 1,
                   Outcome(<<>>, NoExc, <<>>, <<>>))

\* get_existing_fixtures after the GET has been answered.
GotExisting(r) ==
    IF r.exc = NoExc
    THEN Outcome(r.ret, NoExc, r.log, <<>>)
    ELSE Outcome(None,
                 Exc("Exception",
                     <<"Failed to get existing fixtures: ">> \o r.exc.msg),
                 r.log, <<>>)

\* get_existing_fixtures: GET the list endpoint.
get_existing_fixtures(resp) ==
    CHOOSE out \in
        {GotExisting(r) :
            r \in {db_request("GET", default_list_endpoint, None, resp)}} : TRUE

\* clear_fixtures after the DELETE has been answered.
Cleared(r) ==
    IF r.exc = NoExc
    THEN Outcome(r.ret, NoExc, r.log, <<>>)
    ELSE Outcome(None,
                 Exc("Exception", <<"Failed to clear fixtures: ">> \o r.exc.msg),
                 r.log, <<>>)

\* clear_fixtures: DELETE the clear endpoint.
clear_fixtures(resp) ==
    CHOOSE out \in
        {Cleared(r) :
            r \in {db_request("DELETE", default_clear_endpoint, None, resp)}}
        : TRUE

id_fields == <<"id", "fixture_id", "name">>

ListFailed(g, msg) ==
    Outcome(None,
            Exc("Exception", <<"Failed to list existing fixtures: ">> \o msg),
            g.log, <<>>)

\* The list comprehension `[item[id_field] for item in fixtures]`: it raises
\* (KeyError, TypeError) at an element that has no such field, which the
\* `except Exception` of list_existing_fixtures wraps.
IdsByField(g, id_field) ==
    IF \A i \in 1..Len(g.ret.elems) :
           /\ g.ret.elems[i].kind = "dict"
           /\ HasKey(g.ret.elems[i].fields, id_field)
    THEN Outcome([i \in 1..Len(g.ret.elems) |->
                     Get(g.ret.elems[i].fields, id_field)],
                 NoExc, g.log, <<>>)
    ELSE ListFailed(g, <<"'", id_field, "'">>)

\* The ids read off the shape of the answer g of get_existing_fixtures.  The
\* id field is looked for in the first element only.
IdsFromShape(g) ==
    IF g.exc # NoExc THEN ListFailed(g, g.exc.msg)
    ELSE IF g.ret.kind = "list" /\ Len(g.ret.elems) > 0
    THEN IF g.ret.elems[1].kind = "str"
         THEN Outcome(g.ret.elems, NoExc, g.log, <<>>)
         ELSE IF g.ret.elems[1].kind = "dict"
         THEN IF \E k \in 1..Len(id_fields) :
                     HasKey(g.ret.elems[1].fields, id_fields[k])
              THEN IdsByField(g,
                       id_fields[CHOOSE k \in 1..Len(id_fields) :
                           /\ HasKey(g.ret.elems[1].fields, id_fields[k])
                           /\ \A j \in 1..(k - 1) :
                                  ~HasKey(g.ret.elems[1].fields, id_fields[j])])
              ELSE Outcome([i \in 1..Len(g.ret.elems) |-> Str(IntStr(i - 1))],
                           NoExc, g.log, <<>>)
         ELSE Outcome(<<>>, NoExc, g.log, <<>>)
    ELSE Outcome(<<>>, NoExc, g.log, <<>>)

\* list_existing_fixtures: GET, then the ids.
list_existing_fixtures(resp) ==
    CHOOSE out \in {IdsFromShape(g) : g \in {get_existing_fixtures(resp)}} : TRUE

ResetCall(fn, o) == [fn |-> fn, ret |-> o.ret, exc |-> o.exc]

\* What reset_fixtures returns in its `except` branch, or raises: an
\* exception whose message contains "405" becomes a warning result.
ResetFailed(e, log, calls) ==
    IF Contains405(e.msg)
    THEN Outcome([message |-> <<"Reset skipped - no fixtures were deleted because the method is not allowed. ">>
                                \o e.msg,
                  fixtures_deleted |-> <<>>,
                  count |-> Int("0"),
                  status |-> "warning"],
                 NoExc, log, calls)
    ELSE Outcome(None,
                 Exc("Exception", <<"Failed to reset fixtures: ">> \o e.msg),
                 log, calls)

\* reset_fixtures after list_existing_fixtures returned l and clear_fixtures
\* returned or raised c.
ResetAfterClear(l, c) ==
    IF c.exc # NoExc
    THEN ResetFailed(c.exc, l.log \o c.log,
                     <<ResetCall("list_existing_fixtures", l),
                       ResetCall("clear_fixtures", c)>>)
    ELSE IF c.ret.kind # "dict"
    THEN ResetFailed(Exc("AttributeError", <<"object has no attribute 'get'">>),
                     l.log \o c.log,
                     <<ResetCall("list_existing_fixtures", l),
                       ResetCall("clear_fixtures", c)>>)
    ELSE Outcome([message |->
                      <<"Reset completed - deleted ",
                        (IF HasKey(c.ret.fields, "count")
                         THEN Get(c.ret.fields, "count")
                         ELSE Int(IntStr(Len(l.ret)))).atom,
                        " fixtures">>,
                  fixtures_deleted |-> l.ret,
                  count |-> IF HasKey(c.ret.fields, "count")
                            THEN Get(c.ret.fields, "count")
                            ELSE Int(IntStr(Len(l.ret))),
                  status |-> "completed"],
                 NoExc, l.log \o c.log,
                 <<ResetCall("list_existing_fixtures", l),
                   ResetCall("clear_fixtures", c)>>)

\* reset_fixtures clearing even when the listing has raised.
ResetClearingWhateverListed(l, clearResp) ==
    CHOOSE out \in
        {IF l.exc # NoExc
         THEN ResetFailed(l.exc, l.log \o c.log,
                          <<ResetCall("list_existing_fixtures", l),
                            ResetCall("clear_fixtures", c)>>)
         ELSE ResetAfterClear(l, c) : c \in {clear_fixtures(clearResp)}} : TRUE

\* reset_fixtures after list_existing_fixtures returned or raised l: both
\* calls are inside one `try`.
ResetAfterList(l, clearResp) ==
    IF l.exc # NoExc
    THEN ResetFailed(l.exc, l.log, <<ResetCall("list_existing_fixtures", l)>>)
    ELSE CHOOSE out \in
             {ResetAfterClear(l, c) : c \in {clear_fixtures(clearResp)}} : TRUE

\* reset_fixtures: list, then clear.
reset_fixtures(listResp, clearResp) ==
    CHOOSE out \in
        {ResetAfterList(l, clearResp) :
            l \in {list_existing_fixtures(listResp)}} : TRUE

\* reset_and_setup after setup_fixtures returned or raised s.
ResetAndSetupDone(r, s) ==
    IF s.exc # NoExc
    THEN Outcome(None, s.exc, r.log \o s.log,
                 <<ResetCall("reset_fixtures", r),
                   ResetCall("setup_fixtures", s)>>)
    ELSE Outcome([reset |-> r.ret,
                  created_fixtures |-> s.ret,
                  status |-> "completed"],
                 NoExc, r.log \o s.log,
                 <<ResetCall("reset_fixtures", r),
                   ResetCall("setup_fixtures", s)>>)

\* reset_and_setup going on to setup_fixtures whatever the reset returned.
ResetAndSetupAlwaysSettingUp(reg, r, resps) ==
    IF r.exc # NoExc
    THEN Outcome(None, r.exc, r.log, <<ResetCall("reset_fixtures", r)>>)
    ELSE CHOOSE out \in
             {ResetAndSetupDone(r, s) : s \in {setup_fixtures(reg, resps)}}
             : TRUE

\* reset_and_setup after reset_fixtures returned or raised r: on a warning
\* return at once, else set up.
ResetAndSetupAfterReset(reg, r, resps) ==
    IF r.exc # NoExc
    THEN Outcome(None, r.exc, r.log, <<ResetCall("reset_fixtures", r)>>)
    ELSE IF r.ret.status = "warning"
    THEN Outcome([reset |-> r.ret,
                  created_fixtures |-> <<>>,
                  status |-> "warning"],
                 NoExc, r.log, <<ResetCall("reset_fixtures", r)>>)
    ELSE CHOOSE out \in
             {ResetAndSetupDone(r, s) : s \in {setup_fixtures(reg, resps)}}
             : TRUE

\* reset_and_setup looking at the registry before it resets.
ResetAndSetupCheckingFirst(reg, listResp, clearResp, resps) ==
    IF Len(reg) = 0
    THEN Outcome(None, Exc("ValueError", <<"No fixture data configured.">>),
                 <<>>, <<>>)
    ELSE CHOOSE out \in
             {ResetAndSetupAfterReset(reg, r, resps) :
                 r \in {reset_fixtures(listResp, clearResp)}} : TRUE

\* reset_and_setup: reset, then (unless warned) set up.
reset_and_setup(reg, listResp, clearResp, resps) ==
    CHOOSE out \in
        {ResetAndSetupAfterReset(reg, r, resps) :
            r \in {reset_fixtures(listResp, clearResp)}} : TRUE

---------------------------------------------------------------------------
(* The remote API's answers, and the database operations as actions        *)

PutResponses == {Ok(Dict({<<"status", Str("created")>>})), HttpError(Cause500)}

\* What one element of a listing may be.
ItemChoices ==
    {Str("a"), Str("b"),
     Dict({<<"id", Int("1")>>}),
     Dict({<<"id", Int("2")>>, <<"name", Str("two")>>}),
     Dict({<<"fixture_id", Str("f")>>, <<"name", Str("n")>>}),
     Dict({<<"name", Str("m")>>}),
     Dict({<<"label", Str("l")>>}),
     Int("7")}

ListBodies ==
    {List(e) : e \in UNION {[1..k -> ItemChoices] : k \in 0..MaxListed}}
        \cup {Dict({<<"items", List(<<Str("a")>>)>>}), None}

ListResponses ==
    {Ok(b) : b \in ListBodies}
        \cup {HttpError(Cause405), HttpError(Cause500), HttpError(CauseTimeout), BadJson}

\* The listings a reset is tried against: empty, strings, objects with ids,
\* objects of which one has no id, and the failures.
ResetListResponses ==
    {Ok(List(<<>>)),
     Ok(List(<<Str("a"), Str("b")>>)),
     Ok(List(<<Dict({<<"id", Int("1")>>}), Dict({<<"id", Int("2")>>})>>)),
     Ok(List(<<Dict({<<"id", Int("1")>>}), Dict({<<"name", Str("m")>>})>>)),
     HttpError(Cause405), HttpError(Cause500)}

ClearResponses ==
    {Ok(Dict({<<"count", Int("5")>>})),
     Ok(Dict({<<"message", Str("cleared")>>})),
     Ok(None),
     HttpError(Cause405), HttpError(Cause500), BadJson}

DbCall(name, arg, out) ==
    [name |-> name, arg |-> arg, ret |-> out.ret, exc |-> out.exc,
     log |-> out.log, calls |-> out.calls]

CreateFixtureInDatabase ==
    \E i \in 1..Len(fixture_configs), resp \in PutResponses \cup {BadJson} :
        /\ op = NoCall
        /\ \E out \in {create_fixture_in_database(
                            get_fixtures(fixture_configs)[i], resp)} :
               op' = DbCall("create_fixture_in_database",
                            Dict(get_fixtures(fixture_configs)[i]), out)
        /\ fixture_configs' = RegistryAfterCreate(fixture_configs, {i})
        /\ UNCHANGED <<file, hist, hc, cmd>>

SetupFixtures ==
    \E resps \in [1..Len(fixture_configs) -> PutResponses] :
        /\ op = NoCall
        /\ \E out \in {setup_fixtures(fixture_configs, resps)} :
               op' = DbCall("setup_fixtures", None, out)
        /\ fixture_configs' =
               RegistryAfterCreate(fixture_configs, 1..Len(fixture_configs))
        /\ UNCHANGED <<file, hist, hc, cmd>>

ListExistingFixtures ==
    \E resp \in ListResponses :
        /\ op = NoCall
        /\ \E out \in {list_existing_fixtures(resp)} :
               op' = DbCall("list_existing_fixtures", resp, out)
        /\ UNCHANGED <<fixture_configs, file, hist, hc, cmd>>

ClearFixtures ==
    \E resp \in ClearResponses :
        /\ op = NoCall
        /\ \E out \in {clear_fixtures(resp)} :
               op' = DbCall("clear_fixtures", resp, out)
        /\ UNCHANGED <<fixture_configs, file, hist, hc, cmd>>

ResetFixtures ==
    \E listResp \in ResetListResponses, clearResp \in ClearResponses :
        /\ op = NoCall
        /\ \E out \in {reset_fixtures(listResp, clearResp)} :
               op' = DbCall("reset_fixtures", None, out)
        /\ UNCHANGED <<fixture_configs, file, hist, hc, cmd>>

ResetAndSetup ==
    \E listResp \in ResetListResponses, clearResp \in ClearResponses,
       resps \in [1..Len(fixture_configs) -> PutResponses] :
        /\ op = NoCall
        /\ \E out \in {reset_and_setup(fixture_configs, listResp, clearResp,
                                        resps)} :
               /\ op' = DbCall("reset_and_setup", None, out)
               /\ fixture_configs' =
                      IF Len(out.calls) = 2
                      THEN RegistryAfterCreate(fixture_configs,
                                               1..Len(fixture_configs))
                      ELSE fixture_configs
        /\ UNCHANGED <<file, hist, hc, cmd>>

\* The caller takes the result; the next call can be made (the program is
\* single-threaded and every call is synchronous).
ReturnToCaller ==
    /\ op # NoCall
    /\ op' = NoCall
    /\ UNCHANGED <<fixture_configs, file, hist, hc, cmd>>

NextDb ==
    \/ CreateFixtureInDatabase
    \/ SetupFixtures
    \/ ListExistingFixtures
    \/ ClearFixtures
    \/ ResetFixtures
    \/ ResetAndSetup
    \/ ReturnToCaller

SpecDb == Init /\ [][NextDb]_vars

\* Every operation of a generator but add_fixture and load_from_file, in
\* any order, each called when the one before it has returned (the export
\* while no file has been written yet).
NextGenerator ==
    \/ op = NoCall /\ GetFixtures
    \/ op = NoCall /\ GetFixtureByName
    \/ op = NoCall /\ ListAvailable
    \/ op = NoCall /\ file = NoFile /\ SaveToFiles
    \/ CreateFixtureInDatabase
    \/ SetupFixtures
    \/ ListExistingFixtures
    \/ ClearFixtures
    \/ ResetFixtures
    \/ ResetAndSetup
    \/ ReturnToCaller

SpecGenerator == Init /\ [][NextGenerator]_vars

---------------------------------------------------------------------------
(* DatabaseConnector.health_check (database.py)                            *)
(*                                                                         *)
(* The loop is modelled step by step; hc.pc is the position:               *)
(*   "for"    at `for attempt in range(max_retries)`, hc.attempt the value *)
(*            the range yields next;                                       *)
(*   "get"    at `client.get(...)` of the attempt hc.attempt;              *)
(*   "except" in the `except (httpx.RequestError, httpx.TimeoutException)` *)
(*            branch;                                                      *)
(*   "sleep"  in `time.sleep(delay)`;                                      *)
(*   "returned" after `return`, hc.result the value returned.              *)
(* hc.trace lists the GETs (with how each was answered) and the sleeps in  *)
(* the order they happened.                                                *)

\* How a probe ends: a response with status 200, a response with another
\* status, or one of the two exceptions the loop catches.
StatusOk == "200"
StatusOther == "503"
NetworkErrors == {"RequestError", "TimeoutException"}
ProbeOutcomes == {StatusOk, StatusOther} \cup NetworkErrors

Probe(outcome) == [ev |-> "get", outcome |-> outcome]
Slept == [ev |-> "sleep", outcome |-> ""]

\* health_check(endpoint, max_retries, delay) is called.
HealthCheck ==
    \E max_retries \in 0..MaxRetries :
        /\ hc.pc = "idle"
        /\ hc' = [hc EXCEPT !.pc = "for", !.max_retries = max_retries,
                            !.attempt = 0]
        /\ UNCHANGED <<fixture_configs, file, op, hist, cmd>>

\* `for attempt in range(max_retries)`: the next attempt, or `return False`
\* when the range is exhausted.
HealthCheckFor ==
    /\ hc.pc = "for"
    /\ IF hc.attempt < hc.max_retries
       THEN hc' = [hc EXCEPT !.pc = "get"]
       ELSE hc' = [hc EXCEPT !.pc = "returned", !.result = FALSE]
    /\ UNCHANGED <<fixture_configs, file, op, hist, cmd>>

\* The GET: status 200 returns True; another status falls out of the `try`
\* to the next iteration; a network or timeout error enters `except`.
HealthCheckGet ==
    \E outcome \in ProbeOutcomes :
        /\ hc.pc = "get"
        /\ hc' = [hc EXCEPT
                    !.trace = Append(@, Probe(outcome)),
                    !.pc = IF outcome = StatusOk THEN "returned"
                           ELSE IF outcome \in NetworkErrors THEN "except"
                           ELSE "for",
                    !.result = (outcome = StatusOk),
                    !.attempt = IF outcome = StatusOther THEN @ + 1 ELSE @]
        /\ UNCHANGED <<fixture_configs, file, op, hist, cmd>>

\* The `except` branch sleeping after every failed probe, the last included.
HealthCheckExceptAlwaysSleeping ==
    /\ hc.pc = "except"
    /\ hc' = [hc EXCEPT !.pc = "sleep"]
    /\ UNCHANGED <<fixture_configs, file, op, hist, cmd>>

\* The `except` branch: `if attempt < max_retries - 1: time.sleep(delay)`,
\* then `continue`.
HealthCheckExcept ==
    /\ hc.pc = "except"
    /\ IF hc.attempt + 1 < hc.max_retries
       THEN hc' = [hc EXCEPT !.pc = "sleep"]
       ELSE hc' = [hc EXCEPT !.pc = "for", !.attempt = @ + 1]
    /\ UNCHANGED <<fixture_configs, file, op, hist, cmd>>

\* time.sleep(delay) returns; `continue`.
HealthCheckSleep ==
    /\ hc.pc = "sleep"
    /\ hc' = [hc EXCEPT !.trace = Append(@, Slept), !.pc = "for",
                        !.attempt = @ + 1]
    /\ UNCHANGED <<fixture_configs, file, op, hist, cmd>>

NextHealth ==
    \/ HealthCheck
    \/ HealthCheckFor
    \/ HealthCheckGet
    \/ HealthCheckExcept
    \/ HealthCheckSleep

\* The program is single-threaded and synchronous: a call that has been made
\* goes on running; every GET is answered or fails within the client's
\* timeout and every sleep is of the fixed delay, so each step is taken.
SpecHealth == Init /\ [][NextHealth]_vars /\ WF_vars(NextHealth)

---------------------------------------------------------------------------
(* The `database` command (main.py)                                        *)
(*                                                                         *)
(* cmd.pc is the command's position: "health" before the health check,     *)
(* "prompt" in typer.confirm, "loop" in the `for gen_name, generator in     *)
(* generators` loop of the branch cmd.branch with cmd.k the generator that  *)
(* comes next, "exited" when the process has ended with status              *)
(* cmd.exit_code.  cmd.log lists the requests issued (generator, verb,      *)
(* whether answered 2xx), cmd.calls the generator methods called (on which *)
(* generator, whether the call raised, the status of the result of a       *)
(* reset), cmd.health what the health check returned or raised.  The GETs  *)
(* of the health check are not in cmd.log.                                 *)

\* The exception classes met in the command that derive from Exception.
\* typer.Exit and typer.Abort are click's Exit and Abort, both subclasses of
\* RuntimeError.
ExceptionClasses ==
    {"Exception", "ValueError", "KeyError", "AttributeError",
     "JSONDecodeError", "Exit", "Abort"}

GeneratorNames == {"example", "agent"}

\* The registries the discovered generators hold: none or one fixture.
CommandRegistries ==
    {<<>>, <<<<NameTable[1], DescWrapped(NameTable[1])>>>>}

\* What the API answers to the command's requests: a listing of names, a
\* listing whose second object lacks the id of the first, and 405; a count
\* of the fixtures cleared, 405 and 500.
CommandListResponses ==
    {Ok(List(<<Str("a"), Str("b")>>)),
     Ok(List(<<Dict({<<"id", Int("1")>>}), Dict({<<"name", Str("m")>>})>>)),
     HttpError(Cause405)}

CommandClearResponses ==
    {Ok(Dict({<<"count", Int("5")>>})), HttpError(Cause405),
     HttpError(Cause500)}

\* What get_all_generators returns: (base_name, generator) pairs.
Discovered ==
    UNION {[1..n -> GeneratorNames \X CommandRegistries]
              : n \in 0..MaxGenerators}

\* --generator: "" is no filter (None and "" are both false).
GeneratorFilters == {""} \cup GeneratorNames \cup {MissingName}

OptionSets ==
    [api_url : {"http://localhost:8000", ""}, list_available : BOOLEAN,
     setup : BOOLEAN, reset : BOOLEAN, reset_and_setup : BOOLEAN,
     confirm : BOOLEAN, list_existing : BOOLEAN]

ConfirmAnswers == {"yes", "no", "abort"}

\* The process ends with a status.
Exited(c, code) == [c EXCEPT !.pc = "exited", !.exit_code = code]

\* An exception raised inside the command's `try`: `except ValueError` and
\* `except Exception` both end in `raise typer.Exit(1)`; an exception that
\* neither catches would leave with its own status.
Caught(c, exc_type, code) ==
    IF exc_type = "ValueError" THEN Exited(c, 1)
    ELSE IF exc_type \in ExceptionClasses THEN Exited(c, 1)
    ELSE Exited(c, code)

\* `[(name, gen) for name, gen in generators if name == generator_name]`;
\* of the generators selected the registries are kept (a name is only
\* printed).
Selected(generators, generator_name) ==
    LET Named(g) == generator_name = "" \/ g[1] = generator_name
        selected == SelectSeq(generators, Named)
    IN  [i \in 1..Len(selected) |-> selected[i][2]]

\* The command up to its `try`: discovery, --list-available, --generator.
Database ==
    \E opts \in OptionSets, generators \in Discovered,
       generator_name \in GeneratorFilters :
        /\ cmd.pc = "idle"
        /\ \E selected \in {Selected(generators, generator_name)} :
               cmd' = IF Len(generators) = 0
                      THEN Exited([cmd EXCEPT !.opts = opts], 1)
                      ELSE IF opts.list_available
                      THEN Exited([cmd EXCEPT !.opts = opts], 0)
                      ELSE IF Len(selected) = 0
                      THEN Exited([cmd EXCEPT !.opts = opts], 1)
                      ELSE [cmd EXCEPT !.opts = opts,
                                       !.generators = selected,
                                       !.pc = "health"]
        /\ UNCHANGED <<fixture_configs, file, op, hist, hc>>

\* Into the loop of a branch, or to the prompt first.
Branch(c, branch, prompt) ==
    [c EXCEPT !.branch = branch, !.pc = IF prompt THEN "prompt" ELSE "loop"]

\* The health check of the first generator, then the choice of the branch.
\* A generator constructed with an empty api_url has no client and its
\* health_check raises ValueError.
DatabaseHealthCheck ==
    \E healthy \in BOOLEAN :
        /\ cmd.pc = "health"
        /\ \E c \in {[cmd EXCEPT !.health =
                            IF cmd.opts.api_url = "" THEN "ValueError"
                            ELSE IF healthy THEN "True" ELSE "False"]} :
             cmd' =
                IF c.health = "ValueError" THEN Caught(c, "ValueError", 1)
                ELSE IF c.health = "False" THEN Caught(c, "Exit", 1)
                ELSE IF c.opts.list_existing
                THEN Branch(c, "list_existing", FALSE)
                ELSE IF c.opts.reset \/ c.opts.reset_and_setup
                THEN IF c.opts.reset_and_setup
                     THEN Branch(c, "reset_and_setup", ~c.opts.confirm)
                     ELSE Branch(c, "reset", ~c.opts.confirm)
                ELSE IF c.opts.setup THEN Branch(c, "setup", FALSE)
                ELSE Exited(c, 0)
        /\ UNCHANGED <<fixture_configs, file, op, hist, hc>>

\* The prompt going on to the loop whatever the user answers.
DatabaseConfirmProceeding ==
    \E answer \in ConfirmAnswers :
        /\ cmd.pc = "prompt"
        /\ cmd' = [cmd EXCEPT !.answer = answer, !.pc = "loop"]
        /\ UNCHANGED <<fixture_configs, file, op, hist, hc>>

\* typer.confirm: on "no" `raise typer.Exit(0)`, inside the `try`; with no
\* input typer.confirm raises Abort.
DatabaseConfirm ==
    \E answer \in ConfirmAnswers :
        /\ cmd.pc = "prompt"
        /\ cmd' = IF answer = "yes"
                  THEN [cmd EXCEPT !.answer = answer, !.pc = "loop"]
                  ELSE IF answer = "no"
                  THEN Caught([cmd EXCEPT !.answer = answer], "Exit", 0)
                  ELSE Caught([cmd EXCEPT !.answer = answer], "Abort", 1)
        /\ UNCHANGED <<fixture_configs, file, op, hist, hc>>

\* The call fn on generator c.k has returned or raised out.
Logged(c, fn, out) ==
    [c EXCEPT !.log = @ \o [i \in 1..Len(out.log) |->
                               [gen |-> c.k, verb |-> out.log[i].verb,
                                ok |-> out.log[i].ok]],
              !.calls = Append(@, [gen |-> c.k, fn |-> fn,
                                    raised |-> out.exc # NoExc,
                                    status |-> IF out.exc = NoExc
                                                  /\ fn \in {"reset_fixtures",
                                                              "reset_and_setup"}
                                               THEN out.ret.status
                                               ELSE ""])]

\* The next generator, or the end of the loop and of the command.
Advance(c) ==
    IF c.k = Len(c.generators) THEN Exited(c, 0) ELSE [c EXCEPT !.k = @ + 1]

\* `result['reset']['message']` can be read.
HasResetMessage(result) ==
    /\ "reset" \in DOMAIN result
    /\ "message" \in DOMAIN result.reset

\* --list-existing, one generator: an exception is printed and the command
\* returns.
DatabaseListExisting ==
    \E resp \in CommandListResponses :
        /\ cmd.pc = "loop"
        /\ cmd.branch = "list_existing"
        /\ \E out \in {list_existing_fixtures(resp)} :
               cmd' = IF out.exc # NoExc
                      THEN Exited(Logged(cmd, "list_existing_fixtures", out), 0)
                      ELSE Advance(Logged(cmd, "list_existing_fixtures", out))
        /\ UNCHANGED <<fixture_configs, file, op, hist, hc>>

\* --reset-and-setup, one generator.
DatabaseResetAndSetup ==
    /\ cmd.pc = "loop"
    /\ cmd.branch = "reset_and_setup"
    /\ \E listResp \in CommandListResponses,
       clearResp \in CommandClearResponses,
          resps \in [1..Len(cmd.generators[cmd.k]) -> PutResponses] :
           \E out \in {reset_and_setup(cmd.generators[cmd.k], listResp,
                                       clearResp, resps)} :
               cmd' = IF out.exc # NoExc
                      THEN Caught(Logged(cmd, "reset_and_setup", out),
                                  out.exc.type, 1)
                      ELSE IF ~HasResetMessage(out.ret)
                      THEN Caught(Logged(cmd, "reset_and_setup", out),
                                  "KeyError", 1)
                      ELSE Advance(Logged(cmd, "reset_and_setup", out))
    /\ UNCHANGED <<fixture_configs, file, op, hist, hc>>

\* --reset, one generator.  The result of reset_fixtures is reported with
\* `result['reset']['message']`.
DatabaseReset ==
    \E listResp \in CommandListResponses,
       clearResp \in CommandClearResponses :
        /\ cmd.pc = "loop"
        /\ cmd.branch = "reset"
        /\ \E out \in {reset_fixtures(listResp, clearResp)} :
               cmd' = IF out.exc # NoExc
                      THEN Caught(Logged(cmd, "reset_fixtures", out),
                                  out.exc.type, 1)
                      ELSE IF ~HasResetMessage(out.ret)
                      THEN Caught(Logged(cmd, "reset_fixtures", out),
                                  "KeyError", 1)
                      ELSE Advance(Logged(cmd, "reset_fixtures", out))
        /\ UNCHANGED <<fixture_configs, file, op, hist, hc>>

\* --setup (the default), one generator.
DatabaseSetup ==
    /\ cmd.pc = "loop"
    /\ cmd.branch = "setup"
    /\ \E resps \in [1..Len(cmd.generators[cmd.k]) -> PutResponses] :
           \E out \in {setup_fixtures(cmd.generators[cmd.k], resps)} :
               cmd' = IF out.exc # NoExc
                      THEN Caught(Logged(cmd, "setup_fixtures", out),
                                  out.exc.type, 1)
                      ELSE Advance(Logged(cmd, "setup_fixtures", out))
    /\ UNCHANGED <<fixture_configs, file, op, hist, hc>>

\* The process starts with no generator constructed: get_all_generators
\* constructs them.
InitCommand ==
    /\ fixture_configs = <<>>
    /\ file = NoFile
    /\ op = NoCall
    /\ hist = NoHist
    /\ hc = NoHc
    /\ cmd = NoCmd

NextCommand ==
    \/ Database
    \/ DatabaseHealthCheck
    \/ DatabaseConfirm
    \/ DatabaseListExisting
    \/ DatabaseResetAndSetup
    \/ DatabaseReset
    \/ DatabaseSetup

SpecCommand == InitCommand /\ [][NextCommand]_vars

---------------------------------------------------------------------------
(* Generator discovery: get_all_generators (main.py)                       *)
(*                                                                         *)
(* A file name and a class name are sequences of the pieces the string     *)
(* tests look at: "my_generator_tools_generator.py" is                     *)
(* <<"my", "_generator", "_tools", "_generator", ".py">>.  A module is     *)
(* [loads, attrs]: whether its import succeeds, and what dir(module) lists *)
(* (in dir's order), each attribute [name, is_type, instantiates].         *)

FileNames ==
    {<<"example", "_generator", ".py">>,
     <<"agent", "_generator", ".py">>,
     <<"base", "_generator", ".py">>,
     <<"_", "hidden", "_generator", ".py">>,
     <<"my", "_generator", "_tools", "_generator", ".py">>,
     <<"example", "_fixtures", ".py">>}

\* The pieces that begin with "_".
UnderscorePieces == {"_", "_generator", "_tools", "_fixtures"}

Attr(name, is_type, instantiates) ==
    [name |-> name, is_type |-> is_type, instantiates |-> instantiates]

ExampleClass == Attr(<<"Example", "Generator">>, TRUE, TRUE)
BrokenClass == Attr(<<"Broken", "Generator">>, TRUE, FALSE)
BaseClass == Attr(<<"Generator">>, TRUE, TRUE)
HelperClass == Attr(<<"Generator", "Helper">>, TRUE, TRUE)
NotAClass == Attr(<<"default_", "Generator">>, FALSE, FALSE)

Module(loads, attrs) == [loads |-> loads, attrs |-> attrs]

Modules ==
    {Module(FALSE, <<>>),
     Module(TRUE, <<>>),
     Module(TRUE, <<ExampleClass, BaseClass>>),
     Module(TRUE, <<BrokenClass, ExampleClass, BaseClass>>),
     Module(TRUE, <<BaseClass, HelperClass, NotAClass>>),
     Module(TRUE, <<BrokenClass>>)}

\* os.listdir(generators_dir): files with distinct names, in any order, each
\* with the module it holds.
Listings ==
    UNION {{l \in [1..n -> [filename : FileNames, module : Modules]] :
               \A i, j \in 1..n : l[i].filename = l[j].filename => i = j}
           : n \in 0..MaxFiles}

ApiUrls == {"http://localhost:8000", ""}

\* filename.endswith('_generator.py')
EndsWithGeneratorPy(filename) ==
    /\ Len(filename) >= 2
    /\ filename[Len(filename)] = ".py"
    /\ filename[Len(filename) - 1] = "_generator"

\* filename.startswith('_')
StartsWithUnderscore(filename) == filename[1] \in UnderscorePieces

\* module_name = filename[:-3]; base_name = module_name.replace('_generator', '')
BaseNameOf(filename) ==
    LET NotGenerator(piece) == piece # "_generator"
    IN  SelectSeq(SubSeq(filename, 1, Len(filename) - 1), NotGenerator)

\* The test a name of dir(module) passes to be instantiated.
IsGeneratorClass(attr) ==
    /\ attr.is_type
    /\ attr.name[Len(attr.name)] = "Generator"
    /\ attr.name # <<"Generator">>

\* attr(api_url)
Instance(attr, api_url) == [cls |-> attr.name, api_url |-> api_url]

\* The inner loop stopping at the first class that cannot be instantiated.
RECURSIVE LoadedFromStoppingAtFailure(_, _, _, _)
LoadedFromStoppingAtFailure(base_name, attrs, api_url, j) ==
    IF j > Len(attrs) THEN <<>>
    ELSE IF IsGeneratorClass(attrs[j]) /\ ~attrs[j].instantiates THEN <<>>
    ELSE (IF IsGeneratorClass(attrs[j])
          THEN <<<<base_name, Instance(attrs[j], api_url)>>>>
          ELSE <<>>)
         \o LoadedFromStoppingAtFailure(base_name, attrs, api_url, j + 1)

\* The inner loop over dir(module), from the j-th name on: a class that
\* cannot be instantiated is skipped.
RECURSIVE LoadedFrom(_, _, _, _)
LoadedFrom(base_name, attrs, api_url, j) ==
    IF j > Len(attrs) THEN <<>>
    ELSE (IF IsGeneratorClass(attrs[j]) /\ attrs[j].instantiates
          THEN <<<<base_name, Instance(attrs[j], api_url)>>>>
          ELSE <<>>)
         \o LoadedFrom(base_name, attrs, api_url, j + 1)

\* One file of the listing: what it adds to `generators`.
DiscoveredIn(entry, api_url) ==
    IF ~(EndsWithGeneratorPy(entry.filename)
            /\ ~StartsWithUnderscore(entry.filename))
    THEN <<>>
    ELSE IF BaseNameOf(entry.filename) \in {<<"base">>, <<"__init__">>}
    THEN <<>>
    ELSE IF ~entry.module.loads THEN <<>>
    ELSE LoadedFrom(BaseNameOf(entry.filename), entry.module.attrs, api_url, 1)

\* get_all_generators: [] if there is no generators directory, else what
\* each file of it adds, in the order of the listing.
RECURSIVE get_all_generators(_, _, _, _)
get_all_generators(exists, listing, api_url, i) ==
    IF ~exists \/ i > Len(listing) THEN <<>>
    ELSE DiscoveredIn(listing[i], api_url)
             \o get_all_generators(exists, listing, api_url, i + 1)

GetAllGenerators ==
    /\ op = NoCall
    /\ \E exists \in BOOLEAN, listing \in Listings, api_url \in ApiUrls :
        /\ op' = Call("get_all_generators",
                      [exists |-> exists, listing |-> listing,
                       api_url |-> api_url],
                      get_all_generators(exists, listing, api_url, 1), NoExc)
        /\ UNCHANGED <<fixture_configs, file, hist, hc, cmd>>

NextDiscovery ==
    \/ GetAllGenerators
    \/ ReturnToCaller

SpecDiscovery == InitCommand /\ [][NextDiscovery]_vars

---------------------------------------------------------------------------
(* Claims about the registry operations (checked under Spec)               *)

\* The registry of the scenario: {"x": {"data": {"x": {"v": 1}}}}.
ScenarioRegistry == <<<<"x", DescWrapped("x")>>>>

\* The payload of a descriptor as section 4.2 words it: the contents of the
\* `data` wrapper if there is one, else the top level without description
\* and tags.
PayloadOf(desc) ==
    IF "data" \in KeysOf(desc)
    THEN (CHOOSE p \in desc : p[1] = "data")[2].fields
    ELSE {p \in desc : p[1] # "description" /\ p[1] # "tags"}

\* C1 as stated: on the scenario's registry get_fixtures returns exactly
\* [{"v": 1, "fixture_id": "x"}], with no key named after the fixture.
C1_ScenarioFlattened ==
    (op.name = "get_fixtures" /\ fixture_configs = ScenarioRegistry)
        => op.ret = <<{<<"v", Int("1")>>, <<"fixture_id", Str("x")>>}>>

\* C1 as amended: get_fixtures returns, for an entry with a `data` wrapper,
\* the items of the `data` mapping (one level unwrapped) with fixture_id set
\* to the entry's name; on the scenario's registry that is exactly
\* [{"x": {"v": 1}, "fixture_id": "x"}], the key named after the fixture kept.
C1_ScenarioUnwrappedOnce ==
    op.name = "get_fixtures" =>
        /\ \A i \in 1..Len(fixture_configs) :
               "data" \in KeysOf(fixture_configs[i][2]) =>
                   /\ i \in DOMAIN op.ret
                   /\ op.ret[i] = {p \in PayloadOf(fixture_configs[i][2]) :
                                      p[1] # "fixture_id"}
                                  \cup {<<"fixture_id", Str(fixture_configs[i][1])>>}
        /\ fixture_configs = ScenarioRegistry =>
               op.ret = <<{<<"x", Dict({<<"v", Int("1")>>})>>,
                           <<"fixture_id", Str("x")>>}>>

C1_Witness ==
    /\ op.name = "get_fixtures"
    /\ fixture_configs = ScenarioRegistry
    /\ Len(op.ret) = 1

\* C2: get_fixtures returns one element per registry entry, in the order of
\* the registry; the i-th element is the i-th entry's payload, and its
\* fixture_id is the i-th entry's name, whatever fixture_id the payload had.
C2_OnePerEntryInOrder ==
    op.name = "get_fixtures" =>
        /\ Len(op.ret) = Len(fixture_configs)
        /\ \A i \in 1..Len(fixture_configs) :
               /\ \A p \in op.ret[i] :
                      p[1] = "fixture_id" => p[2] = Str(fixture_configs[i][1])
               /\ "fixture_id" \in KeysOf(op.ret[i])
               /\ {p \in op.ret[i] : p[1] # "fixture_id"}
                      = {p \in PayloadOf(fixture_configs[i][2]) :
                            p[1] # "fixture_id"}

C2_Witness ==
    /\ op.name = "get_fixtures"
    /\ Len(op.ret) >= 2
    /\ \E i, j \in 1..Len(fixture_configs) :
           /\ "data" \in KeysOf(fixture_configs[i][2])
           /\ "data" \notin KeysOf(fixture_configs[j][2])
           /\ <<"fixture_id", Str("stale")>> \in PayloadOf(fixture_configs[j][2])

\* C3: after save_to_files and then load_from_file of the file written,
\* get_fixtures returns, order ignored, what it returned before the export.
C3_ExportImportRoundTrip ==
    (op.name = "load_from_file" /\ op.exc = NoExc)
        => RangeOf(get_fixtures(fixture_configs)) = RangeOf(hist.exported)

\* C4: get_fixture_by_name of a name added by add_fixture(n, description, c)
\* returns the fields of c and fixture_id = n; of a name not in the registry
\* it raises, the message listing the registry's names.
C4_AddThenGetByName ==
    op.name = "get_fixture_by_name" =>
        /\ \A a \in hist.added :
               (op.arg = Str(a[1]) /\ op.exc = NoExc) =>
                   /\ \A p \in a[2].fields : p \in op.ret
                   /\ <<"fixture_id", Str(a[1])>> \in op.ret
        /\ (\A i \in 1..Len(fixture_configs) : Str(fixture_configs[i][1]) # op.arg)
               => /\ op.exc.type = "ValueError"
                  /\ SubSeq(op.exc.msg, 4, Len(op.exc.msg)) = RegKeys(fixture_configs)

---------------------------------------------------------------------------
(* Claims about the database operations (checked under SpecDb)             *)

\* The elements of `fixtures` whose request in `log` was answered with
\* success, in order.
RECURSIVE AnsweredOk(_, _)
AnsweredOk(fixtures, log) ==
    IF fixtures = <<>> \/ log = <<>> THEN <<>>
    ELSE IF Head(log).ok
    THEN <<Head(fixtures)>> \o AnsweredOk(Tail(fixtures), Tail(log))
    ELSE AnsweredOk(Tail(fixtures), Tail(log))

\* C5: on a non-empty registry setup_fixtures issues one PUT per resolved
\* fixture, in registry order, whatever the earlier ones were answered;
\* it raises nothing; it returns exactly the fixtures whose PUT succeeded,
\* in order, each with its fixture_id.
C5_SetupToleratesFailures ==
    (op.name = "setup_fixtures" /\ Len(fixture_configs) > 0) =>
        /\ op.exc = NoExc
        /\ Len(op.log) = Len(fixture_configs)
        /\ \A i \in 1..Len(op.log) :
               /\ op.log[i].verb = "PUT"
               /\ op.log[i].endpoint = <<"/", fixture_configs[i][1], "/">>
        /\ op.ret = AnsweredOk(get_fixtures(fixture_configs), op.log)
        /\ Len(op.ret) = Len(fixture_configs)
                           - Cardinality({i \in 1..Len(op.log) : ~op.log[i].ok})
        /\ \A j \in 1..Len(op.ret) : "fixture_id" \in KeysOf(op.ret[j])

C5_Witness ==
    /\ op.name = "setup_fixtures"
    /\ Len(fixture_configs) = 2
    /\ Len(op.log) = 2
    /\ ~op.log[1].ok
    /\ op.log[2].ok
    /\ Len(op.ret) = 1

\* C6: reset_fixtures returns a warning (nothing deleted, count 0) when the
\* clear call raised with "405" in its message, and raises, returning
\* nothing, when the list step raised or the clear step raised otherwise.
C6_OnlyClear405IsWarning ==
    op.name = "reset_fixtures" =>
        /\ (/\ Len(op.calls) = 2
            /\ op.calls[2].exc # NoExc
            /\ Contains405(op.calls[2].exc.msg))
               => /\ op.exc = NoExc
                  /\ op.ret.status = "warning"
                  /\ op.ret.fixtures_deleted = <<>>
                  /\ op.ret.count = Int("0")
        /\ (\/ op.calls[1].exc # NoExc
            \/ /\ Len(op.calls) = 2
               /\ op.calls[2].exc # NoExc
               /\ ~Contains405(op.calls[2].exc.msg))
               => /\ op.exc # NoExc
                  /\ op.ret = None

\* C7: reset_and_setup returns a warning with no fixture created, and issues
\* no PUT, when reset_fixtures returned a warning; when reset_fixtures
\* returned a completed reset it calls setup_fixtures after it and returns
\* "completed" with what setup_fixtures returned, be it empty (an exception
\* of setup_fixtures is raised on).
C7_ShortCircuitOnWarning ==
    (op.name = "reset_and_setup" /\ op.calls[1].exc = NoExc) =>
        /\ op.calls[1].fn = "reset_fixtures"
        /\ op.calls[1].ret.status = "warning" =>
               /\ op.exc = NoExc
               /\ op.ret.status = "warning"
               /\ op.ret.created_fixtures = <<>>
               /\ op.ret.reset = op.calls[1].ret
               /\ Len(op.calls) = 1
               /\ \A i \in 1..Len(op.log) : op.log[i].verb # "PUT"
        /\ op.calls[1].ret.status # "warning" =>
               /\ Len(op.calls) = 2
               /\ op.calls[2].fn = "setup_fixtures"
               /\ \A i, j \in 1..Len(op.log) :
                      (op.log[i].verb = "DELETE" /\ op.log[j].verb = "PUT")
                          => i < j
               /\ op.calls[2].exc = NoExc =>
                      /\ op.exc = NoExc
                      /\ op.ret.status = "completed"
                      /\ op.ret.created_fixtures = op.calls[2].ret
                      /\ op.ret.created_fixtures
                             = AnsweredOk(get_fixtures(fixture_configs),
                                          SubSeq(op.log, 3, Len(op.log)))
                      /\ op.ret.reset = op.calls[1].ret
               /\ op.calls[2].exc # NoExc => op.exc = op.calls[2].exc

C7_Witness ==
    /\ op.name = "reset_and_setup"
    /\ Len(fixture_configs) > 0
    /\ op.exc = NoExc
    /\ op.ret.status = "warning"
    /\ Len(op.log) = 2
    /\ op.log[2].verb = "DELETE"

\* C8: for every answer of the list endpoint list_existing_fixtures returns
\* the ids: a list of strings as it is; for a list of objects the value, in
\* every element, of the first of id, fixture_id, name that the first
\* element has, or the index strings if it has none; the empty list when
\* the answer is not a non-empty list.
C8_IdsForEveryAnswer ==
    (op.name = "list_existing_fixtures" /\ op.arg.status = "ok") =>
        /\ op.exc = NoExc
        /\ (op.arg.body.kind # "list" \/ Len(op.arg.body.elems) = 0)
               => op.ret = <<>>
        /\ (/\ op.arg.body.kind = "list"
            /\ Len(op.arg.body.elems) > 0
            /\ \A i \in 1..Len(op.arg.body.elems) :
                   op.arg.body.elems[i].kind = "str")
               => op.ret = op.arg.body.elems
        /\ (/\ op.arg.body.kind = "list"
            /\ Len(op.arg.body.elems) > 0
            /\ \A i \in 1..Len(op.arg.body.elems) :
                   op.arg.body.elems[i].kind = "dict")
               => /\ Len(op.ret) = Len(op.arg.body.elems)
                  /\ \A i \in 1..Len(op.ret) :
                         LET e == op.arg.body.elems
                             has(k) == k \in KeysOf(e[1].fields)
                         IN  op.ret[i] =
                               CASE has("id") -> Get(e[i].fields, "id")
                                 [] has("fixture_id") -> Get(e[i].fields, "fixture_id")
                                 [] has("name") -> Get(e[i].fields, "name")
                                 [] OTHER -> Str(IntStr(i - 1))

---------------------------------------------------------------------------
(* Claims about the health check (checked under SpecHealth)                *)

ProbesIn(trace) == {i \in 1..Len(trace) : trace[i].ev = "get"}

\* The safety half of C9, of every state of a health_check call.
C9_Polled ==
    /\ Cardinality(ProbesIn(hc.trace)) <= hc.max_retries
    \* a probe answered 200 is the last thing done, and True is returned
    /\ \A i \in ProbesIn(hc.trace) :
           hc.trace[i].outcome = StatusOk =>
               /\ i = Len(hc.trace)
               /\ hc.pc = "returned"
               /\ hc.result
    /\ (hc.pc = "returned" /\ hc.result) =>
           /\ hc.trace # <<>>
           /\ hc.trace[Len(hc.trace)] = Probe(StatusOk)
    \* False is returned after max_retries probes, none answered 200
    /\ (hc.pc = "returned" /\ ~hc.result) =>
           /\ Cardinality(ProbesIn(hc.trace)) = hc.max_retries
           /\ \A i \in ProbesIn(hc.trace) : hc.trace[i].outcome # StatusOk
    \* a sleep follows a probe that failed with a network or timeout error,
    \* and that probe is not the last of the max_retries
    /\ \A i \in 1..Len(hc.trace) :
           hc.trace[i].ev = "sleep" =>
               /\ i > 1
               /\ hc.trace[i - 1].ev = "get"
               /\ hc.trace[i - 1].outcome \in NetworkErrors
               /\ Cardinality({j \in ProbesIn(hc.trace) : j < i})
                      < hc.max_retries

\* C9: health_check is a bounded poll: for any max_retries >= 0 it issues at
\* most max_retries GET probes, returns True at the first probe answered
\* with status 200 and probes no more, returns False after exactly
\* max_retries probes when none was answered 200, sleeps only after a probe
\* that failed with a network or timeout error and never after the last
\* probe, and every call returns.
C9_BoundedPoll ==
    /\ []C9_Polled
    /\ (hc.pc # "idle") ~> (hc.pc = "returned")

\* False returned after every one of at least two probes failed with a
\* network error: a sleep after the first, none after the last.
C9_Witness ==
    /\ hc.pc = "returned"
    /\ ~hc.result
    /\ hc.max_retries >= 2
    /\ \A i \in ProbesIn(hc.trace) : hc.trace[i].outcome \in NetworkErrors
    /\ hc.trace[Len(hc.trace)].ev = "get"
    /\ \E i \in 1..Len(hc.trace) : hc.trace[i].ev = "sleep"

---------------------------------------------------------------------------
(* Claims about the `database` command (checked under SpecCommand)         *)

Issued(verb) == \E i \in 1..Len(cmd.log) : cmd.log[i].verb = verb

\* C10: in the database command no DELETE request is issued for any
\* generator unless --confirm was given or the user answered yes to the
\* prompt (the prompt of --reset and --reset-and-setup); when the user
\* declines, no DELETE and no PUT is issued and the process exits with a
\* non-zero status.
C10_ConfirmationGate ==
    /\ Issued("DELETE") => (cmd.opts.confirm \/ cmd.answer = "yes")
    /\ cmd.answer = "no" =>
           /\ cmd.opts.reset \/ cmd.opts.reset_and_setup
           /\ ~Issued("DELETE")
           /\ ~Issued("PUT")
           /\ cmd.pc = "exited"
           /\ cmd.exit_code # 0

\* The user declined the prompt of --reset: nothing called, status 1.
C10_Witness ==
    /\ cmd.opts.reset
    /\ ~cmd.opts.confirm
    /\ cmd.answer = "no"
    /\ cmd.pc = "exited"
    /\ cmd.exit_code = 1
    /\ cmd.calls = <<>>

\* C11: setup_fixtures on an empty registry raises ValueError ("No fixture
\* data configured."), returning nothing; it issues no request and has made
\* no create_fixture_in_database call.
C11_EmptyRegistryRefused ==
    (op.name = "setup_fixtures" /\ Len(fixture_configs) = 0) =>
        /\ op.exc.type = "ValueError"
        /\ op.exc.msg = <<"No fixture data configured.">>
        /\ op.ret = None
        /\ op.log = <<>>
        /\ op.calls = <<>>

C11_Witness ==
    /\ op.name = "setup_fixtures"
    /\ Len(fixture_configs) = 0
    /\ op.exc # NoExc

\* C12: create_fixture_in_database of a resolved fixture issues exactly one
\* PUT, to "/<fixture_id>/" (the default template formatted with the
\* fixture's id), with the fixture without its fixture_id field as body; if
\* the PUT succeeds it returns that body with fixture_id set to the original
\* id, that is the fixture it was given; if the PUT fails it raises
\* Exception("Failed to create fixture <fixture_id>: ...") and returns
\* nothing; in either case no second request is made.
C12_OnePutPerCreate ==
    op.name = "create_fixture_in_database" =>
        /\ Len(op.log) = 1
        /\ op.log[1].verb = "PUT"
        /\ op.log[1].endpoint
               = <<"/", Get(op.arg.fields, "fixture_id").atom, "/">>
        /\ op.log[1].body
               = Dict({p \in op.arg.fields : p[1] # "fixture_id"})
        /\ op.log[1].ok =>
               /\ op.exc = NoExc
               /\ op.ret = op.arg.fields
               /\ {p \in op.ret : p[1] # "fixture_id"}
                      = op.log[1].body.fields
        /\ ~op.log[1].ok =>
               /\ op.ret = None
               /\ op.exc.type = "Exception"
               /\ SubSeq(op.exc.msg, 1, 3)
                      = <<"Failed to create fixture ",
                          Get(op.arg.fields, "fixture_id").atom, ": ">>

\* A PUT answered with an error: the failure names the fixture.
C12_Witness ==
    /\ op.name = "create_fixture_in_database"
    /\ Len(op.log) = 1
    /\ ~op.log[1].ok
    /\ op.exc.type = "Exception"
    /\ op.exc.msg[2] = fixture_configs[1][1]

---------------------------------------------------------------------------
(* Claims about generator discovery (checked under SpecDiscovery)          *)

\* A file name of the form <domain>_generator.py, and its <domain>.
NamedByConvention(filename) ==
    /\ Len(filename) >= 3
    /\ filename[Len(filename)] = ".py"
    /\ filename[Len(filename) - 1] = "_generator"

DomainOf(filename) == SubSeq(filename, 1, Len(filename) - 2)

\* A type exported by a module whose name ends in Generator, the base apart.
NamedGenerator(attr) ==
    /\ attr.is_type
    /\ attr.name[Len(attr.name)] = "Generator"
    /\ attr.name # <<"Generator">>

\* C13 as stated: the result holds exactly one (domain, instance) pair, the
\* instance made with the shared base URL, for every type named *Generator
\* (the base apart) of every file <domain>_generator.py (domain "base"
\* apart) whose module loads and whose instantiation succeeds, and nothing
\* else; a file or a class that fails takes nothing away from the others.
C13_EveryConventionalFile ==
    (op.name = "get_all_generators" /\ op.arg.exists) =>
        LET listing == op.arg.listing
            succeeded ==
                {c \in (1..Len(listing)) \X (1..3) :
                    /\ NamedByConvention(listing[c[1]].filename)
                    /\ DomainOf(listing[c[1]].filename) # <<"base">>
                    /\ listing[c[1]].module.loads
                    /\ c[2] <= Len(listing[c[1]].module.attrs)
                    /\ NamedGenerator(listing[c[1]].module.attrs[c[2]])
                    /\ listing[c[1]].module.attrs[c[2]].instantiates}
            pair(c) ==
                <<DomainOf(listing[c[1]].filename),
                  [cls |-> listing[c[1]].module.attrs[c[2]].name,
                   api_url |-> op.arg.api_url]>>
        IN  /\ Len(op.ret) = Cardinality(succeeded)
            /\ {op.ret[k] : k \in 1..Len(op.ret)}
                   = {pair(c) : c \in succeeded}

\* C13 as amended: as above, for the files <domain>_generator.py whose name
\* does not begin with an underscore, the domain name of a pair being the
\* module name with every "_generator" taken out.
C13_EveryPublicConventionalFile ==
    (op.name = "get_all_generators" /\ op.arg.exists) =>
        LET listing == op.arg.listing
            domain(filename) ==
                LET Kept(piece) == piece # "_generator"
                IN  SelectSeq(SubSeq(filename, 1, Len(filename) - 1), Kept)
            succeeded ==
                {c \in (1..Len(listing)) \X (1..3) :
                    /\ NamedByConvention(listing[c[1]].filename)
                    /\ listing[c[1]].filename[1] \notin UnderscorePieces
                    /\ domain(listing[c[1]].filename) # <<"base">>
                    /\ listing[c[1]].module.loads
                    /\ c[2] <= Len(listing[c[1]].module.attrs)
                    /\ NamedGenerator(listing[c[1]].module.attrs[c[2]])
                    /\ listing[c[1]].module.attrs[c[2]].instantiates}
            pair(c) ==
                <<domain(listing[c[1]].filename),
                  [cls |-> listing[c[1]].module.attrs[c[2]].name,
                   api_url |-> op.arg.api_url]>>
        IN  /\ Len(op.ret) = Cardinality(succeeded)
            /\ {op.ret[k] : k \in 1..Len(op.ret)}
                   = {pair(c) : c \in succeeded}

\* A module that does not load, and one whose first class cannot be
\* instantiated and whose second can: one pair comes out.
C13_Witness ==
    /\ op.name = "get_all_generators"
    /\ op.arg.exists
    /\ Len(op.arg.listing) = 2
    /\ op.arg.listing[1].filename = <<"agent", "_generator", ".py">>
    /\ ~op.arg.listing[1].module.loads
    /\ op.arg.listing[2].filename = <<"example", "_generator", ".py">>
    /\ op.arg.listing[2].module
           = Module(TRUE, <<BrokenClass, ExampleClass, BaseClass>>)
    /\ op.ret = <<<<<<"example">>,
                    [cls |-> <<"Example", "Generator">>,
                     api_url |-> op.arg.api_url]>>>>

\* A generator method called by the command raised.
SomeCallRaised == \E i \in 1..Len(cmd.calls) : cmd.calls[i].raised

\* C14: a failure in the database command makes it exit non-zero: when the
\* health check returned false or raised, or a generator method the command
\* called raised (list_existing_fixtures under --list-existing included),
\* the exit status is not zero.
C14_FailuresExitNonZero ==
    (cmd.pc = "exited" /\ (cmd.health \in {"False", "ValueError"}
                              \/ SomeCallRaised))
        => cmd.exit_code # 0

---------------------------------------------------------------------------
(* Claims about the registry as a frame (checked under SpecGenerator)      *)

\* C15: every operation other than add_fixture and load_from_file leaves
\* the registry as it was, whether it returns or raises: the same keys in
\* the same order, each with the same descriptor, the `data` mapping of a
\* descriptor included (it gains no fixture_id key).
C15_RegistryUnchanged ==
    [][fixture_configs' = fixture_configs]_vars

\* setup_fixtures has created the fixture of a registry whose descriptor has
\* a `data` wrapper, and that wrapper holds no fixture_id.
C15_Witness ==
    /\ op.name = "setup_fixtures"
    /\ Len(op.ret) >= 1
    /\ Len(fixture_configs) >= 1
    /\ HasKey(fixture_configs[1][2], "data")
    /\ ~HasKey(Get(fixture_configs[1][2], "data").fields, "fixture_id")
    /\ HasKey(op.ret[1], "fixture_id")

---------------------------------------------------------------------------
(* More claims about the database operations (checked under SpecDb)        *)

\* C16: reset_fixtures lists before it clears: its first request is the GET
\* of the list endpoint; a DELETE, if any, is the second request and comes
\* after that GET was answered; when list_existing_fixtures raised there is
\* no DELETE; and a completed reset reports as fixtures_deleted the ids
\* list_existing_fixtures returned, as count the `count` of the answer to
\* the DELETE if it has one and else the number of those ids.
C16_CaptureBeforeClear ==
    op.name = "reset_fixtures" =>
        /\ Len(op.log) >= 1
        /\ op.log[1].verb = "GET"
        /\ op.calls[1].fn = "list_existing_fixtures"
        /\ \A i \in 1..Len(op.log) :
               op.log[i].verb = "DELETE" =>
                   /\ i = 2
                   /\ op.log[1].ok
                   /\ op.calls[1].exc = NoExc
        /\ op.calls[1].exc # NoExc =>
               /\ Len(op.calls) = 1
               /\ \A i \in 1..Len(op.log) : op.log[i].verb # "DELETE"
        /\ (op.exc = NoExc /\ op.ret.status = "completed") =>
               /\ Len(op.log) = 2
               /\ op.log[2].verb = "DELETE"
               /\ op.log[2].ok
               /\ op.calls[2].fn = "clear_fixtures"
               /\ op.ret.fixtures_deleted = op.calls[1].ret
               /\ HasKey(op.calls[2].ret.fields, "count") =>
                      op.ret.count = Get(op.calls[2].ret.fields, "count")
               /\ ~HasKey(op.calls[2].ret.fields, "count") =>
                      op.ret.count.atom
                          = <<"0", "1", "2", "3", "4">>[Len(op.calls[1].ret) + 1]

\* A completed reset of two listed fixtures, the answer to the DELETE having
\* no count.
C16_Witness ==
    /\ op.name = "reset_fixtures"
    /\ op.exc = NoExc
    /\ op.ret.status = "completed"
    /\ Len(op.ret.fixtures_deleted) = 2
    /\ ~HasKey(op.calls[2].ret.fields, "count")
    /\ op.ret.count = Int("2")

\* C17: a reset_fixtures result with status "warning" comes only from a
\* rejected clear: a DELETE was issued in the call and failed, the message
\* of clear_fixtures' exception containing "405"; when
\* list_existing_fixtures raised, whatever its message, the result is not a
\* warning.
C17_WarningOnlyFromClear ==
    (op.name = "reset_fixtures" /\ op.exc = NoExc
        /\ op.ret.status = "warning") =>
        /\ op.calls[1].exc = NoExc
        /\ Len(op.calls) = 2
        /\ op.calls[2].fn = "clear_fixtures"
        /\ op.calls[2].exc # NoExc
        /\ Contains405(op.calls[2].exc.msg)
        /\ \E i \in 1..Len(op.log) :
               op.log[i].verb = "DELETE" /\ ~op.log[i].ok

---------------------------------------------------------------------------
(* More claims about the `database` command (checked under SpecCommand)    *)

\* C18: with --reset confirmed (by --confirm or by a yes) and
\* --reset-and-setup not given, once the health check has passed the command
\* calls reset_fixtures once on every selected generator, in order, and
\* when each of those calls has returned a result (completed or warning)
\* the command ends with status 0.
C18_ResetRunsEveryGenerator ==
    (/\ cmd.pc = "exited"
     /\ cmd.branch = "reset"
     /\ cmd.opts.confirm \/ cmd.answer = "yes"
     /\ ~SomeCallRaised) =>
        /\ Len(cmd.calls) = Len(cmd.generators)
        /\ \A i \in 1..Len(cmd.calls) :
               /\ cmd.calls[i].gen = i
               /\ cmd.calls[i].fn = "reset_fixtures"
               /\ cmd.calls[i].status \in {"completed", "warning"}
        /\ cmd.exit_code = 0

---------------------------------------------------------------------------
(* Claims about reset_and_setup on an empty registry (checked under SpecDb) *)

\* The DELETE of the call was answered with success: the listing returned
\* and clear_fixtures returned.
ClearSucceeded ==
    \E i \in 1..Len(op.log) : op.log[i].verb = "DELETE" /\ op.log[i].ok

\* No PUT is issued before a DELETE has been answered with success.
NoPutBeforeDelete ==
    \A i \in 1..Len(op.log) :
        op.log[i].verb = "PUT" =>
            \E j \in 1..(i - 1) : op.log[j].verb = "DELETE" /\ op.log[j].ok

\* C19 as stated: on an empty registry, when the list and the clear call
\* succeed, reset_and_setup has issued the DELETE and then raises the
\* ValueError of setup_fixtures, returning nothing and issuing no PUT; and
\* in every run no PUT comes before the DELETE has been answered with
\* success.
C19_EmptyRegistryAfterClear ==
    op.name = "reset_and_setup" =>
        /\ (Len(fixture_configs) = 0 /\ ClearSucceeded) =>
               /\ op.exc.type = "ValueError"
               /\ op.ret = None
               /\ \A i \in 1..Len(op.log) : op.log[i].verb # "PUT"
        /\ NoPutBeforeDelete

\* C19 as amended: on an empty registry the ValueError of setup_fixtures is
\* raised only after the DELETE was answered with success, and it is raised
\* whenever reset_fixtures completed (the list and the clear call succeeded
\* and the answer to the DELETE was a JSON object), with nothing returned and
\* no PUT issued; in every run no PUT comes before the DELETE has been
\* answered with success.
C19_EmptyRegistryAfterCompletedReset ==
    op.name = "reset_and_setup" =>
        /\ (Len(fixture_configs) = 0 /\ op.exc.type = "ValueError") =>
               ClearSucceeded
        /\ (/\ Len(fixture_configs) = 0
            /\ Len(op.calls) >= 1
            /\ op.calls[1].exc = NoExc
            /\ op.calls[1].ret.status = "completed") =>
               /\ ClearSucceeded
               /\ Len(op.calls) = 2
               /\ op.calls[2].fn = "setup_fixtures"
               /\ op.exc.type = "ValueError"
               /\ op.exc = op.calls[2].exc
               /\ op.ret = None
               /\ \A i \in 1..Len(op.log) : op.log[i].verb # "PUT"
        /\ NoPutBeforeDelete

\* The empty registry, the fixtures deleted, and the ValueError.
C19_Witness ==
    /\ op.name = "reset_and_setup"
    /\ Len(fixture_configs) = 0
    /\ Len(op.log) = 2
    /\ op.log[2].verb = "DELETE"
    /\ op.log[2].ok
    /\ op.exc.type = "ValueError"

=============================================================================
